---- MODULE Spec2Model ----
(***************************************************************************)
(* A model of the extract-transform-load pipeline of                       *)
(* src/src/etl_pipeline.py (class WebScraper).                             *)
(*                                                                         *)
(* Text is a sequence of one-character strings.  Python values that may be *)
(* None are records with a "type" field.  The table web_data is a set of   *)
(* rows, seq is the AUTOINCREMENT counter of the table (sqlite_sequence),  *)
(* clock is the wall clock, which advances with every call, and last       *)
(* records the most recent call: its inputs, what it returned and the      *)
(* table before it (arg2 and clean2 are the input and the result of the    *)
(* second of two transform_data calls that are compared).                  *)
(***************************************************************************)
EXTENDS Integers, Sequences, FiniteSets, TLC

VARIABLES db, seq, clock, last

vars == <<db, seq, clock, last>>

(***************************************************************************)
(* Bounds of the model.                                                    *)
(***************************************************************************)
\* calls made on one WebScraper; the clock ticks once per call
MaxClock == 3
\* longest tail appended after the filler of a long content
MaxTail == 2

(***************************************************************************)
(* Program constants.                                                      *)
(***************************************************************************)
\* content[:100] in transform_data
PrefixLen == 100
\* soup.get_text()[:1000] in extract_data
MaxContent == 1000

(***************************************************************************)
(* Python values.                                                          *)
(***************************************************************************)
PyNone == [type |-> "NoneType"]

PyStr(s) == [type |-> "str", val |-> s]

EmptyDict == [type |-> "dict"]

\* Python's `not data` for the values a stage receives: None and the empty
\* dict are falsy, every other dict is truthy.
Not(x) == x = PyNone \/ x = EmptyDict

Min(a, b) == IF a <= b THEN a ELSE b

\* s[:n]
Take(s, n) == SubSeq(s, 1, Min(n, Len(s)))

\* str.isspace for one character
WS == {" ", "\n", "\t"}

RECURSIVE LStrip(_)
LStrip(s) ==
    IF s = <<>> THEN s
    ELSE IF Head(s) \in WS THEN LStrip(Tail(s)) ELSE s

RECURSIVE RStrip(_)
RStrip(s) ==
    IF s = <<>> THEN s
    ELSE IF s[Len(s)] \in WS THEN RStrip(SubSeq(s, 1, Len(s) - 1)) ELSE s

\* str.strip()
Strip(s) == RStrip(LStrip(s))

\* str.split(): the maximal runs of non-whitespace characters, in order.
\* A token starts at a non-whitespace character that is first or follows
\* whitespace, and ends before the next whitespace or at the end.
TokenStarts(s) ==
    {i \in 1..Len(s) : s[i] \notin WS /\ (i = 1 \/ s[i - 1] \in WS)}

TokenEnd(s, i) ==
    LET ends == {m \in i..Len(s) : m = Len(s) \/ s[m + 1] \in WS} IN
    CHOOSE j \in ends : \A m \in ends : j <= m

Split(s) ==
    LET starts == TokenStarts(s) IN
    [k \in 1..Cardinality(starts) |->
        LET i == CHOOSE i \in starts :
                    Cardinality({j \in starts : j < i}) = k - 1 IN
        SubSeq(s, i, TokenEnd(s, i))]

\* ' '.join(toks)
RECURSIVE Join(_)
Join(toks) ==
    IF toks = <<>> THEN <<>>
    ELSE IF Len(toks) = 1 THEN toks[1]
    ELSE toks[1] \o <<" ">> \o Join(Tail(toks))

\* ' '.join(content.split())
CleanWhitespace(s) == Join(Split(s))

\* hashlib.md5(text.encode()).hexdigest(): an ideal digest, equal on two
\* texts exactly when the texts are equal; it is written as its preimage.
Md5Hex(text) == [md5 |-> text]

(***************************************************************************)
(* The HTTP exchange and the parsed document, as extract_data sees them.   *)
(* A response is what requests.get produced: exc names the exception it    *)
(* raised ("none" when it returned), status is the final status code,      *)
(* parses tells whether BeautifulSoup accepts the body, and doc is the     *)
(* parsed tree: the first title element (if any) with its children, and    *)
(* the text of the rest of the document.                                   *)
(***************************************************************************)
TextNode(s) == [kind |-> "text", text |-> s, kids |-> <<>>]

\* an element inside the title whose children are the text nodes kids
TagNode(kids) == [kind |-> "tag", text |-> <<>>, kids |-> kids]

NoTitle == [present |-> FALSE, children |-> <<>>]

TitleElem(children) == [present |-> TRUE, children |-> children]

RECURSIVE Concat(_)
Concat(ss) == IF ss = <<>> THEN <<>> ELSE Head(ss) \o Concat(Tail(ss))

\* every string below a node, concatenated
NodeText(n) == IF n.kind = "text" THEN n.text ELSE Concat(n.kids)

\* Tag.string of bs4: the single child if it is a string, the .string of
\* the single child if it is a tag, None when there are no or several
\* children.
NodeString(n) ==
    IF n.kind = "text" THEN PyStr(n.text)
    ELSE IF Len(n.kids) = 1 THEN PyStr(n.kids[1]) ELSE PyNone

TitleString(t) ==
    IF Len(t.children) = 1 THEN NodeString(t.children[1]) ELSE PyNone

TitleText(t) == Concat([i \in 1..Len(t.children) |-> NodeText(t.children[i])])

\* soup.get_text(): every string of the document in document order, the
\* title's first
GetText(doc) == TitleText(doc.title) \o doc.body

\* Response.raise_for_status(): HTTPError for 4xx and 5xx, nothing otherwise
RaisesForStatus(status) == 400 <= status /\ status < 600

\* what a call did: returned value, or raised an exception to its caller
Returned(v) == [raised |-> FALSE, value |-> v]

RaisedExc == [raised |-> TRUE, value |-> PyNone]

\* extract_data lines 61-66
RawRecord(url, doc, now) ==
    [type |-> "dict",
     url |-> url,
     title |-> IF doc.title.present THEN TitleString(doc.title)
               ELSE PyStr(<<>>),
     content |-> Take(GetText(doc), MaxContent),
     timestamp |-> now]

\* extract_data: an exception of requests (connection error, timeout, the
\* HTTPError of raise_for_status) is caught and None returned; any other
\* exception of the try body leaves the method.
ExtractData(url, resp, now) ==
    IF resp.exc # "none" THEN Returned(PyNone)
    ELSE IF RaisesForStatus(resp.status) THEN Returned(PyNone)
    ELSE IF ~resp.parses THEN RaisedExc
    ELSE Returned(RawRecord(url, resp.doc, now))

(***************************************************************************)
(* transform_data                                                          *)
(***************************************************************************)
RawKeys == {"title", "content", "url", "timestamp"}

\* a digest over the whole cleaned content
FingerprintWholeContent(url, content) == Md5Hex(url \o content)

\* lines 90-92: md5 of url followed by the first 100 characters of the
\* cleaned content
Fingerprint(url, content) == Md5Hex(url \o Take(content, PrefixLen))

\* lines 77-101.  Inside the try, a missing key (KeyError) or a title that
\* is not a string (AttributeError on .strip) is caught and None returned.
TransformData(data) ==
    IF Not(data) THEN PyNone
    ELSE IF ~(RawKeys \subseteq DOMAIN data) THEN PyNone
    ELSE IF data.title.type # "str" THEN PyNone
    ELSE LET content == CleanWhitespace(data.content) IN
         [type |-> "dict",
          title |-> PyStr(Strip(data.title.val)),
          content |-> content,
          url |-> data.url,
          timestamp |-> data.timestamp,
          data_hash |-> Fingerprint(data.url, content)]

(***************************************************************************)
(* Storage: the table web_data of setup_database and the statement of      *)
(* load_data.                                                              *)
(***************************************************************************)
CleanKeys == {"title", "content", "url", "timestamp", "data_hash"}

\* the row INSERT writes for data: the columns of lines 117-121 and the id
\* AUTOINCREMENT assigns, one past every id handed out so far
NewRow(s, data) ==
    [id |-> s + 1,
     title |-> data.title,
     content |-> data.content,
     url |-> data.url,
     timestamp |-> data.timestamp,
     data_hash |-> data.data_hash]

\* variants of the statement: without the unique constraints, with the
\* conflict resolved on url alone, and with OR IGNORE for OR REPLACE
InsertAppend(d, s, data) ==
    [db |-> d \cup {NewRow(s, data)}, seq |-> s + 1]

InsertReplaceByUrl(d, s, data) ==
    [db |-> {r \in d : r.url # data.url} \cup {NewRow(s, data)},
     seq |-> s + 1]

InsertOrIgnore(d, s, data) ==
    IF \E r \in d : r.url = data.url \/ r.data_hash = data.data_hash
    THEN [db |-> d, seq |-> s]
    ELSE [db |-> d \cup {NewRow(s, data)}, seq |-> s + 1]

\* INSERT OR REPLACE against url TEXT UNIQUE and data_hash TEXT UNIQUE:
\* every row that conflicts with the new one on either column is deleted,
\* then the new row is inserted.
InsertOrReplace(d, s, data) ==
    [db |-> {r \in d : r.url # data.url /\ r.data_hash # data.data_hash}
              \cup {NewRow(s, data)},
     seq |-> s + 1]

\* a failed call whose statement stays written
RollbackKeepsWrite(before, txn) == txn

\* the connection's context manager leaving the with block on an
\* exception: the open transaction is rolled back
Rollback(before, txn) == before

\* what can go wrong in storage during one load_data call
Faults == {"none", "connect", "execute", "commit"}

\* load_data lines 105-130: [ret, opened, db, seq], opened telling whether
\* sqlite3.connect was called.  Every exception of the try body is caught
\* and False returned.
LoadData(data, fault, d, s) ==
    LET failed == [ret |-> FALSE, opened |-> TRUE, db |-> d, seq |-> s] IN
    IF Not(data) THEN [failed EXCEPT !.opened = FALSE]
    ELSE IF fault = "connect" THEN failed
    ELSE IF ~(CleanKeys \subseteq DOMAIN data) THEN failed
    ELSE IF fault = "execute" THEN failed
    ELSE LET txn == InsertOrReplace(d, s, data) IN
         IF fault = "commit"
         THEN LET back == Rollback([db |-> d, seq |-> s], txn) IN
              [failed EXCEPT !.db = back.db, !.seq = back.seq]
         ELSE [ret |-> TRUE, opened |-> TRUE, db |-> txn.db, seq |-> txn.seq]

(***************************************************************************)
(* run_pipeline                                                            *)
(***************************************************************************)
\* what one run did: calls lists the stages invoked in order, raw and
\* clean are what extract and transform returned (None when not reached),
\* raised tells whether an exception is leaving, opened whether storage
\* was opened
RunResult(raised, ret, calls, raw, clean, opened, d, s) ==
    [raised |-> raised, ret |-> ret, calls |-> calls, raw |-> raw,
     clean |-> clean, opened |-> opened, db |-> d, seq |-> s]

\* the try body without the test of what extract returned
RunTryNoExtractTest(url, resp, now, fault, d, s) ==
    LET e == ExtractData(url, resp, now) IN
    IF e.raised
    THEN RunResult(TRUE, FALSE, <<"extract">>, PyNone, PyNone, FALSE, d, s)
    ELSE LET t == TransformData(e.value) IN
         LET l == LoadData(t, fault, d, s) IN
         RunResult(FALSE, l.ret, <<"extract", "transform", "load">>,
                   e.value, t, l.opened, l.db, l.seq)

\* the try body, lines 135-147
RunTry(url, resp, now, fault, d, s) ==
    LET e == ExtractData(url, resp, now) IN
    IF e.raised
    THEN RunResult(TRUE, FALSE, <<"extract">>, PyNone, PyNone, FALSE, d, s)
    ELSE IF Not(e.value)
    THEN RunResult(FALSE, FALSE, <<"extract">>, e.value, PyNone, FALSE,
                   d, s)
    ELSE LET t == TransformData(e.value) IN
         IF Not(t)
         THEN RunResult(FALSE, FALSE, <<"extract", "transform">>,
                        e.value, t, FALSE, d, s)
         ELSE LET l == LoadData(t, fault, d, s) IN
              RunResult(FALSE, l.ret, <<"extract", "transform", "load">>,
                        e.value, t, l.opened, l.db, l.seq)

\* a run_pipeline without its except clause
RunCatchNothing(r) == r

\* except Exception, lines 149-151: log and return False
RunCatch(r) == IF r.raised THEN [r EXCEPT !.raised = FALSE, !.ret = FALSE]
               ELSE r

RunPipeline(url, resp, now, fault, d, s) ==
    RunCatch(RunTry(url, resp, now, fault, d, s))

(***************************************************************************)
(* Inputs of the model.                                                    *)
(***************************************************************************)
URLs == {<<"a">>, <<"a", "b">>}

NetFail(e) == [exc |-> e, status |-> 0, parses |-> FALSE,
               doc |-> [title |-> NoTitle, body |-> <<>>]]

HttpResp(status, parses, doc) ==
    [exc |-> "none", status |-> status, parses |-> parses, doc |-> doc]

\* final status codes other than 200: one that raise_for_status lets
\* through and two it turns into HTTPError
OtherStatuses == {304, 404, 503}

\* documents of the pipeline runs: two whose text joins with the urls to
\* the same string, one with a title and untidy whitespace, one with an
\* empty title element
Docs ==
    {[title |-> NoTitle, body |-> <<"c">>],
     [title |-> NoTitle, body |-> <<"b", "c">>],
     [title |-> TitleElem(<<TextNode(<<" ", "b">>)>>),
      body |-> <<" ", "c", "\n">>],
     [title |-> TitleElem(<<>>), body |-> <<"c">>]}

Responses ==
    {NetFail(e) : e \in {"ConnectionError", "Timeout"}}
    \cup {HttpResp(200, TRUE, doc) : doc \in Docs}
    \cup {HttpResp(st, TRUE, [title |-> NoTitle, body |-> <<"c">>]) :
            st \in OtherStatuses}
    \cup {HttpResp(200, FALSE, [title |-> NoTitle, body |-> <<>>])}

\* records handed to load_data directly
Hashes == {Md5Hex(<<"a", "c">>), Md5Hex(<<"a", "b", "c">>)}

CleanRecords ==
    {[type |-> "dict", title |-> PyStr(<<"t">>), content |-> <<"c">>,
      url |-> u, timestamp |-> 0, data_hash |-> h] :
        u \in URLs, h \in Hashes}

LoadInputs ==
    {PyNone, EmptyDict, [type |-> "dict", url |-> <<"a">>]}
    \cup CleanRecords

(***************************************************************************)
(* The state machine: calls of run_pipeline and of load_data on one        *)
(* WebScraper.                                                             *)
(***************************************************************************)
NoCall ==
    [op |-> "none", url |-> <<>>, resp |-> NetFail("none"), now |-> 0,
     fault |-> "none", arg |-> PyNone, stageRaised |-> FALSE,
     raised |-> FALSE, ret |-> FALSE, calls |-> <<>>, raw |-> PyNone,
     clean |-> PyNone, opened |-> FALSE, before |-> {},
     arg2 |-> PyNone, clean2 |-> PyNone]

\* __init__: setup_database creates the empty table
Init ==
    /\ db = {}
    /\ seq = 0
    /\ clock = 0
    /\ last = NoCall

Run(url, resp, fault) ==
    /\ clock < MaxClock
    /\ clock' = clock + 1
    /\ LET now == clock + 1
           t == RunTry(url, resp, now, fault, db, seq)
           r == RunPipeline(url, resp, now, fault, db, seq) IN
       /\ db' = r.db
       /\ seq' = r.seq
       /\ last' = [NoCall EXCEPT !.op = "run", !.url = url, !.resp = resp,
                     !.now = now, !.fault = fault,
                     !.stageRaised = t.raised, !.raised = r.raised,
                     !.ret = r.ret, !.calls = r.calls, !.raw = r.raw,
                     !.clean = r.clean,
                     !.opened = r.opened,
                     !.before = db]

Load(data, fault) ==
    /\ clock < MaxClock
    /\ clock' = clock + 1
    /\ LET l == LoadData(data, fault, db, seq) IN
       /\ db' = l.db
       /\ seq' = l.seq
       /\ last' = [NoCall EXCEPT !.op = "load", !.fault = fault,
                     !.arg = data, !.ret = l.ret, !.calls = <<"load">>,
                     !.opened = l.opened, !.before = db]

Next ==
    \/ \E url \in URLs, resp \in Responses, fault \in Faults :
         Run(url, resp, fault)
    \/ \E data \in LoadInputs, fault \in Faults : Load(data, fault)

Spec == Init /\ [][Next]_vars

(***************************************************************************)
(* Properties of run_pipeline and load_data, checked under Spec.           *)
(***************************************************************************)
Range(f) == {f[i] : i \in 1..Len(f)}

\* the record the last call handed to load_data, and whether it did
Loaded == IF last.op = "load" THEN last.arg ELSE last.clean

LoadCalled == last.op \in {"run", "load"} /\ "load" \in Range(last.calls)

IsClean(data) == ~Not(data) /\ CleanKeys \subseteq DOMAIN data

\* the columns of a row other than its id
Columns(r) ==
    [title |-> r.title, content |-> r.content, url |-> r.url,
     timestamp |-> r.timestamp, data_hash |-> r.data_hash]

\* C1: run_pipeline never raises to its caller: it returns a boolean, and
\* it returns False whenever a stage raised.
C1_RunNeverRaises ==
    last.op = "run" =>
        /\ ~last.raised
        /\ last.ret \in BOOLEAN
        /\ (last.stageRaised => last.ret = FALSE /\ db = last.before)

C1_Witness ==
    /\ last.op = "run"
    /\ last.stageRaised
    /\ ~last.raised
    /\ last.ret = FALSE

C3_RunIdempotent ==
    [][(/\ last.op = "run" /\ last.ret /\ last.before = {}
        /\ last'.op = "run" /\ last'.url = last.url
        /\ last'.resp = last.resp /\ last'.fault = "none")
       => (/\ Cardinality(db) = 1
           /\ last'.ret
           /\ Cardinality(db') = 1
           /\ \A r \in db, r2 \in db' :
                /\ r.url = last.url
                /\ r2.url = r.url
                /\ r2.data_hash = r.data_hash)]_vars

C3_Witness ==
    /\ clock = 2
    /\ last.op = "run"
    /\ last.ret
    /\ last.resp.status = 200
    /\ Cardinality(db) = 1
    /\ \E r \in last.before, r2 \in db :
         /\ r.id = 1 /\ r.timestamp = 1
         /\ r2.id = 2 /\ r2.timestamp = 2
         /\ r.url = last.url /\ r2.url = last.url
         /\ r.title = r2.title /\ r.content = r2.content
         /\ r.data_hash = r2.data_hash

\* C4: load of a record whose url is stored under another data_hash, with
\* no storage fault, returns True and leaves exactly one row of that url,
\* holding the record's title, content, timestamp and data_hash; when that
\* row was the only one, one row is left.
C4_ReplaceOnUrlConflict ==
    (/\ LoadCalled /\ last.fault = "none" /\ IsClean(Loaded)
     /\ \E o \in last.before :
          o.url = Loaded.url /\ o.data_hash # Loaded.data_hash)
    => /\ last.ret = TRUE
       /\ \E r \in db :
            /\ Columns(r) = Columns(Loaded)
            /\ \A r2 \in db : r2.url = Loaded.url => r2 = r
       /\ (Cardinality(last.before) = 1 => Cardinality(db) = 1)

C4_Witness ==
    /\ last.op = "load"
    /\ last.ret = TRUE
    /\ Cardinality(last.before) = 1
    /\ Cardinality(db) = 1
    /\ \E o \in last.before :
         o.url = last.arg.url /\ o.data_hash # last.arg.data_hash

\* C5: no two rows of web_data share a url, a data_hash or an id.
C5_RowsUnique ==
    \A r1, r2 \in db :
        r1 # r2 => /\ r1.url # r2.url
                   /\ r1.data_hash # r2.data_hash
                   /\ r1.id # r2.id

\* a load that met one row with its url and another with its data_hash
C5_Witness ==
    /\ LoadCalled
    /\ last.ret = TRUE
    /\ Cardinality(last.before) = 2
    /\ \E o1, o2 \in last.before :
         /\ o1 # o2
         /\ o1.url = Loaded.url /\ o1.data_hash # Loaded.data_hash
         /\ o2.data_hash = Loaded.data_hash /\ o2.url # Loaded.url

\* C9: a successful load of a record whose data_hash is the digest of
\* url + content[:100] keeps every row stored under another url, columns
\* unchanged, and does not reduce the number of rows.
C9_LoadFrame ==
    (/\ LoadCalled /\ last.ret = TRUE
     /\ Loaded.data_hash = Fingerprint(Loaded.url, Loaded.content))
    => /\ \A o \in last.before :
            o.url # Loaded.url => \E r \in db : Columns(r) = Columns(o)
       /\ Cardinality(db) >= Cardinality(last.before)

\* C10: load of an absent record returns False without opening or changing
\* storage, and a load that meets a storage error returns False and leaves
\* the table as it was.
C10_LoadFailureContained ==
    /\ (last.op = "load" /\ Not(last.arg) =>
          last.ret = FALSE /\ ~last.opened /\ db = last.before)
    /\ (LoadCalled /\ last.fault # "none" =>
          last.ret = FALSE /\ ~last.raised /\ db = last.before)
    /\ (LoadCalled /\ last.ret = FALSE => db = last.before)

\* a commit that failed after the statement had replaced a stored row
C10_Witness ==
    /\ last.op = "load"
    /\ last.fault = "commit"
    /\ IsClean(last.arg)
    /\ last.ret = FALSE
    /\ \E o \in last.before : o.url = last.arg.url
    /\ db = last.before


(***************************************************************************)
(* extract_data called on its own, and transform_data called on what it    *)
(* returned.                                                               *)
(***************************************************************************)
Titles ==
    {NoTitle,
     TitleElem(<<>>),
     TitleElem(<<TextNode(<<"t">>)>>),
     TitleElem(<<TextNode(<<" ", "t", "\n">>)>>),
     TitleElem(<<TagNode(<<<<"t">>>>)>>),
     TitleElem(<<TextNode(<<"t">>), TagNode(<<<<"b">>>>)>>)}

ExtractDocs == [title : Titles, body : {<<>>, <<"c">>}]

ExtractResponses ==
    {NetFail(e) : e \in {"ConnectionError", "Timeout"}}
    \cup {HttpResp(st, TRUE, doc) : st \in {200, 201}, doc \in ExtractDocs}
    \cup {HttpResp(st, TRUE, [title |-> NoTitle, body |-> <<"c">>]) :
            st \in OtherStatuses}
    \cup {HttpResp(200, FALSE, [title |-> NoTitle, body |-> <<>>])}

Extract(url, resp) ==
    /\ clock < MaxClock
    /\ clock' = clock + 1
    /\ LET e == ExtractData(url, resp, clock + 1) IN
       last' = [NoCall EXCEPT !.op = "extract", !.url = url, !.resp = resp,
                  !.now = clock + 1, !.raised = e.raised, !.raw = e.value,
                  !.calls = <<"extract">>]
    /\ UNCHANGED <<db, seq>>

\* transform_data on the value the last extract_data call returned
TransformExtracted ==
    /\ last.op = "extract"
    /\ ~last.raised
    /\ last' = [last EXCEPT !.op = "transform", !.arg = last.raw,
                  !.clean = TransformData(last.raw),
                  !.calls = <<"extract", "transform">>]
    /\ UNCHANGED <<db, seq, clock>>

NextExtract ==
    \/ \E url \in URLs, resp \in ExtractResponses : Extract(url, resp)
    \/ TransformExtracted

SpecExtract == Init /\ [][NextExtract]_vars

\* a response with a 2xx status whose body parses as markup
Is2xxMarkup(resp) ==
    /\ resp.exc = "none"
    /\ 200 <= resp.status /\ resp.status < 300
    /\ resp.parses

\* C7: extract_data never raises: a network error, a timeout, an error
\* status and a failure to parse the body each end in a return of None.
C7_ExtractNeverRaises ==
    last.op = "extract" =>
        /\ ~last.raised
        /\ (\/ last.resp.exc # "none"
            \/ RaisesForStatus(last.resp.status)
            \/ ~last.resp.parses) => last.raw = PyNone

\* C8: for a 2xx markup response extract_data returns a record whose title
\* is a string: the text of the title element when there is one, the empty
\* string when there is none; and transform_data of that record returns a
\* record.
C8_TitleIsText ==
    /\ (last.op = "extract" /\ Is2xxMarkup(last.resp)) =>
          /\ ~last.raised
          /\ ~Not(last.raw)
          /\ last.raw.title.type = "str"
          /\ last.raw.title.val =
               (IF last.resp.doc.title.present
                THEN TitleText(last.resp.doc.title) ELSE <<>>)
    /\ (last.op = "transform" /\ Is2xxMarkup(last.resp)) =>
          ~Not(last.clean)

(***************************************************************************)
(* transform_data called on two records.                                   *)
(***************************************************************************)
Filler(n) == [i \in 1..n |-> "x"]

Tails == UNION {[1..n -> {"a", "b"}] : n \in 0..MaxTail}

\* contents about as long as the fingerprint's prefix, with and without
\* leading whitespace
LongContents ==
    {lead \o Filler(n) \o tail :
        lead \in {<<>>, <<" ">>}, n \in {PrefixLen - 1, PrefixLen},
        tail \in Tails}

TransformInputs ==
    {[type |-> "dict", url |-> u, title |-> PyStr(<<"t">>),
      content |-> c, timestamp |-> 1] : u \in URLs, c \in LongContents}

InitTransform ==
    /\ db = {}
    /\ seq = 0
    /\ clock = 0
    /\ last \in {[NoCall EXCEPT !.op = "inputs", !.arg = r1, !.arg2 = r2] :
                   r1 \in TransformInputs, r2 \in TransformInputs}

TransformFirst ==
    /\ last.op = "inputs"
    /\ last' = [last EXCEPT !.op = "first",
                  !.clean = TransformData(last.arg)]
    /\ UNCHANGED <<db, seq, clock>>

TransformSecond ==
    /\ last.op = "first"
    /\ last' = [last EXCEPT !.op = "second",
                  !.clean2 = TransformData(last.arg2)]
    /\ UNCHANGED <<db, seq, clock>>

NextTransform == TransformFirst \/ TransformSecond

SpecTransform == InitTransform /\ [][NextTransform]_vars

\* s and t have the same first n characters (all of them, when shorter)
SamePrefix(s, t, n) ==
    /\ Min(Len(s), n) = Min(Len(t), n)
    /\ \A i \in 1..Min(Len(s), n) : s[i] = t[i]

\* the two inputs differ at most in content
SameButContent ==
    /\ last.arg.url = last.arg2.url
    /\ last.arg.title = last.arg2.title
    /\ last.arg.timestamp = last.arg2.timestamp

\* C6 as stated: two records of one url whose contents agree on their
\* first 100 characters get the same fingerprint.
C6_RawPrefixDecides ==
    (/\ last.op = "second"
     /\ SameButContent
     /\ SamePrefix(last.arg.content, last.arg2.content, PrefixLen))
    => /\ ~Not(last.clean) /\ ~Not(last.clean2)
       /\ last.clean.data_hash = last.clean2.data_hash

\* C6 amended: two records of one url whose contents, with whitespace
\* normalised, agree on their first 100 characters get the same
\* fingerprint; identical records are one such case.
C6_CleanPrefixDecides ==
    (/\ last.op = "second"
     /\ SameButContent
     /\ SamePrefix(Join(Split(last.arg.content)),
                   Join(Split(last.arg2.content)), PrefixLen))
    => /\ ~Not(last.clean) /\ ~Not(last.clean2)
       /\ last.clean.data_hash = last.clean2.data_hash

C6_Witness ==
    /\ last.op = "second"
    /\ SameButContent
    /\ last.arg.content # last.arg2.content
    /\ Len(last.clean.content) > PrefixLen
    /\ last.clean.content # last.clean2.content
    /\ SamePrefix(last.clean.content, last.clean2.content, PrefixLen)
    /\ last.clean.data_hash = last.clean2.data_hash

====
